---- MODULE Spec2Model ----
(***************************************************************************)
(* Model of fix_findobject.py: the Unity FindObject deprecation fixer.     *)
(*                                                                         *)
(* A text is a sequence of lexical tokens.  Every token is either one of   *)
(* the four special characters  <  >  (  )  or a word that contains none   *)
(* of them, and the words are chosen so that the literal parts of the      *)
(* patterns (FindObjectOfType, FindObjectsOfType, typeof, true, false)     *)
(* occur in the concatenated characters only as whole tokens.  Under that  *)
(* vocabulary a character-level match of any of the seven regular          *)
(* expressions of REPLACEMENTS starts and ends on token boundaries, the    *)
(* character classes [^>] and [^)] accept or reject whole tokens, and      *)
(* str.count of a de-escaped pattern counts token subsequences, so the     *)
(* token-level operators below compute what re.sub and str.count compute   *)
(* on the concatenated characters.                                         *)
(***************************************************************************)
EXTENDS Integers, Sequences, FiniteSets

FOT  == "FindObjectOfType"
FOsT == "FindObjectsOfType"

(***************************************************************************)
(* Regular expressions.  A pattern is a sequence of atoms: "\\(" and "\\)" *)
(* are the escaped parentheses, "([^>]+)" and "([^)]+)" are the capture    *)
(* groups, every other atom is a literal token.  A template is a sequence  *)
(* of tokens in which "\\1" stands for the captured group.                 *)
(***************************************************************************)
REPLACEMENTS ==
  << [pattern     |-> <<FOT, "<", "([^>]+)", ">", "\\(", "\\)">>,
      replacement |-> <<"FindFirstObjectByType", "<", "\\1", ">", "(", ")">>],
     [pattern     |-> <<FOT, "<", "([^>]+)", ">", "\\(", "true", "\\)">>,
      replacement |-> <<"FindFirstObjectByType", "<", "\\1", ">", "(",
                        "FindObjectsInactive.Include", ")">>],
     [pattern     |-> <<FOT, "<", "([^>]+)", ">", "\\(", "false", "\\)">>,
      replacement |-> <<"FindFirstObjectByType", "<", "\\1", ">", "(", ")">>],
     [pattern     |-> <<FOT, "\\(", "typeof", "\\(", "([^)]+)", "\\)", "\\)">>,
      replacement |-> <<"FindFirstObjectByType", "(", "typeof", "(", "\\1",
                        ")", ")">>],
     [pattern     |-> <<FOsT, "<", "([^>]+)", ">", "\\(", "\\)">>,
      replacement |-> <<"FindObjectsByType", "<", "\\1", ">", "(",
                        "FindObjectsSortMode.None", ")">>],
     [pattern     |-> <<FOsT, "<", "([^>]+)", ">", "\\(", "true", "\\)">>,
      replacement |-> <<"FindObjectsByType", "<", "\\1", ">", "(",
                        "FindObjectsInactive.Include", ", ",
                        "FindObjectsSortMode.None", ")">>],
     [pattern     |-> <<FOsT, "<", "([^>]+)", ">", "\\(", "false", "\\)">>,
      replacement |-> <<"FindObjectsByType", "<", "\\1", ">", "(",
                        "FindObjectsSortMode.None", ")">>] >>

NumRules == Len(REPLACEMENTS)

IsGroup(atom) == atom \in {"([^>]+)", "([^)]+)"}

\* mutant: the class excludes nothing, as in (.+)
ExcludedNothing(atom) == ""

\* the character a capture group's class [^c] excludes
Excluded(atom) == IF atom = "([^>]+)" THEN ">" ELSE ")"

\* the token a non-group atom matches
AtomToken(atom) ==
  IF atom = "\\(" THEN "(" ELSE IF atom = "\\)" THEN ")" ELSE atom

NoMatch == [ok |-> FALSE, end |-> 0, cap |-> <<>>]

\* number of consecutive tokens of text from position i that differ from c
RECURSIVE RunLen(_, _, _)
RunLen(text, i, c) ==
  IF i > Len(text) \/ text[i] = c THEN 0 ELSE 1 + RunLen(text, i + 1, c)

SetMax(S) == CHOOSE n \in S : \A m \in S : m <= n

\* match atoms k.. of pat against text from position i; a group is greedy
\* and gives back tokens until the rest of the pattern matches
RECURSIVE MatchFrom(_, _, _, _, _)
MatchFrom(pat, k, text, i, cap) ==
  IF k > Len(pat) THEN [ok |-> TRUE, end |-> i, cap |-> cap]
  ELSE IF IsGroup(pat[k]) THEN
    LET run  == RunLen(text, i, Excluded(pat[k]))
        good == {n \in 1..run :
                   MatchFrom(pat, k + 1, text, i + n,
                             SubSeq(text, i, i + n - 1)).ok}
    IN  IF good = {} THEN NoMatch
        ELSE MatchFrom(pat, k + 1, text, i + SetMax(good),
                       SubSeq(text, i, i + SetMax(good) - 1))
  ELSE IF i <= Len(text) /\ text[i] = AtomToken(pat[k])
       THEN MatchFrom(pat, k + 1, text, i + 1, cap)
       ELSE NoMatch

MatchAt(pat, text, i) == MatchFrom(pat, 1, text, i, <<>>)

\* mutant: the template's \1 is lost
ExpandNoGroup(template, cap) == SelectSeq(template, LAMBDA t : t # "\\1")

\* the template with \1 replaced by the captured tokens
RECURSIVE Expand(_, _)
Expand(template, cap) ==
  IF template = <<>> THEN <<>>
  ELSE (IF Head(template) = "\\1" THEN cap ELSE <<Head(template)>>)
       \o Expand(Tail(template), cap)

SetMin(S) == CHOOSE n \in S : \A m \in S : n <= m

\* the start positions, from pos on, at which pat matches
MatchStarts(pat, text, pos) ==
  {i \in pos..Len(text) : text[i] = AtomToken(pat[1]) /\ MatchAt(pat, text, i).ok}

\* re.sub(pattern, replacement, text) from position pos on: the leftmost
\* match is replaced, and the scan goes on after its end, so the replaced
\* matches do not overlap
RECURSIVE SubFrom(_, _, _, _)
SubFrom(pat, template, text, pos) ==
  LET starts == MatchStarts(pat, text, pos)
  IN  IF starts = {} THEN SubSeq(text, pos, Len(text))
      ELSE LET s == SetMin(starts)
               m == MatchAt(pat, text, s)
           IN  SubSeq(text, pos, s - 1) \o Expand(template, m.cap)
                 \o SubFrom(pat, template, text, m.end)

\* mutant: re.sub(..., count=1), only the first match is replaced
ReSubFirstOnly(pat, template, text) ==
  LET starts == MatchStarts(pat, text, 1)
  IN  IF starts = {} THEN text
      ELSE LET m == MatchAt(pat, text, SetMin(starts))
           IN  SubSeq(text, 1, SetMin(starts) - 1) \o Expand(template, m.cap)
                 \o SubSeq(text, m.end, Len(text))

ReSub(pat, template, text) == SubFrom(pat, template, text, 1)

\* re.search(pattern, text) is not None
Matches(pat, text) == MatchStarts(pat, text, 1) # {}

\* the tokens of an atom's own characters once "\(" and "\)" have been
\* replaced by "(" and ")"
AtomText(atom) ==
  IF IsGroup(atom) THEN <<"(", "[^", Excluded(atom), "]+", ")">>
  ELSE <<AtomToken(atom)>>

\* pattern.replace(r'\(', '(').replace(r'\)', ')')
RECURSIVE DeEscape(_)
DeEscape(pat) ==
  IF pat = <<>> THEN <<>> ELSE AtomText(Head(pat)) \o DeEscape(Tail(pat))

\* str.count: non-overlapping occurrences of sub in text from position pos on
RECURSIVE CountFrom(_, _, _)
CountFrom(sub, text, pos) ==
  LET found == {i \in pos..(Len(text) - Len(sub) + 1) :
                  text[i] = sub[1] /\ SubSeq(text, i, i + Len(sub) - 1) = sub}
  IN  IF found = {} THEN 0
      ELSE 1 + CountFrom(sub, text, SetMin(found) + Len(sub))

StrCount(text, sub) == CountFrom(sub, text, 1)

\* mutant: a changing rule counts as one change
CountChangeOne(pat, content) == 1

\* what one changing rule adds to changes_made
CountChange(pat, content) == StrCount(content, DeEscape(pat))

\* one iteration of the loop over REPLACEMENTS
LoopStep(st, rule) ==
  LET new_content == ReSub(rule.pattern, rule.replacement, st.content)
  IN  IF new_content # st.content
      THEN [content      |-> new_content,
            changes_made |-> st.changes_made + CountChange(rule.pattern, st.content)]
      ELSE st

\* the loop state after the first k rules
RECURSIVE ApplyRules(_, _)
ApplyRules(original_content, k) ==
  IF k = 0 THEN [content |-> original_content, changes_made |-> 0]
  ELSE LoopStep(ApplyRules(original_content, k - 1), REPLACEMENTS[k])


\* mutant: the file is written whether or not the text changed
FixFileAlwaysWrites(original_content) ==
  LET st == ApplyRules(original_content, NumRules)
  IN  [content |-> st.content, writes |-> 1,
       ret |-> IF st.content # original_content THEN st.changes_made ELSE 0]

\* mutant: the file is written inside the loop, once per rule that changed it
FixFileWritesPerRule(original_content) ==
  LET st == ApplyRules(original_content, NumRules)
  IN  [content |-> st.content,
       writes  |-> Cardinality({k \in 1..NumRules :
                     ApplyRules(original_content, k).content
                       # ApplyRules(original_content, k - 1).content}),
       ret     |-> IF st.content # original_content THEN st.changes_made ELSE 0]

\* fix_file on a file that can be read and written: the text it leaves in
\* the file, how many times it writes the file, and what it returns
FixFile(original_content) ==
  LET st == ApplyRules(original_content, NumRules)
  IN  IF st.content # original_content
      THEN [content |-> st.content, writes |-> 1, ret |-> st.changes_made]
      ELSE [content |-> original_content, writes |-> 0, ret |-> 0]

(***************************************************************************)
(* Input texts.                                                            *)
(***************************************************************************)
MaxFrags == 3
MaxCalls == 3

SeqsUpTo(S, n) == UNION {[1..m -> S] : m \in 0..n}

RECURSIVE Flatten(_)
Flatten(ss) == IF ss = <<>> THEN <<>> ELSE Head(ss) \o Flatten(Tail(ss))

TypeNames == {"Foo", "Bar"}

\* the seven deprecated call forms with type argument T, and the modern
\* form documented for each
OldCall(k, T) ==
  CASE k = 1 -> <<FOT, "<", T, ">", "(", ")">>
    [] k = 2 -> <<FOT, "<", T, ">", "(", "true", ")">>
    [] k = 3 -> <<FOT, "<", T, ">", "(", "false", ")">>
    [] k = 4 -> <<FOT, "(", "typeof", "(", T, ")", ")">>
    [] k = 5 -> <<FOsT, "<", T, ">", "(", ")">>
    [] k = 6 -> <<FOsT, "<", T, ">", "(", "true", ")">>
    [] k = 7 -> <<FOsT, "<", T, ">", "(", "false", ")">>

NewCall(k, T) ==
  CASE k = 1 -> <<"FindFirstObjectByType", "<", T, ">", "(", ")">>
    [] k = 2 -> <<"FindFirstObjectByType", "<", T, ">", "(",
                  "FindObjectsInactive.Include", ")">>
    [] k = 3 -> <<"FindFirstObjectByType", "<", T, ">", "(", ")">>
    [] k = 4 -> <<"FindFirstObjectByType", "(", "typeof", "(", T, ")", ")">>
    [] k = 5 -> <<"FindObjectsByType", "<", T, ">", "(",
                  "FindObjectsSortMode.None", ")">>
    [] k = 6 -> <<"FindObjectsByType", "<", T, ">", "(",
                  "FindObjectsInactive.Include", ", ",
                  "FindObjectsSortMode.None", ")">>
    [] k = 7 -> <<"FindObjectsByType", "<", T, ">", "(",
                  "FindObjectsSortMode.None", ")">>

\* pieces of calls, so that texts built from them hold complete, broken,
\* nested and literal-pattern forms
Fragments ==
  { <<FOT, "<">>, <<FOsT, "<">>, <<FOT, "(", "typeof", "(">>,
    <<"Foo">>, <<"List", "<", "Foo", ">">>,
    <<">", "(", ")">>, <<">", "(", "true", ")">>, <<">", "(", "false", ")">>,
    <<")", ")">>,
    OldCall(1, "Foo"), OldCall(4, "Foo"), OldCall(5, "Foo"),
    DeEscape(REPLACEMENTS[1].pattern), DeEscape(REPLACEMENTS[4].pattern) }

FragTexts == {Flatten(ss) : ss \in SeqsUpTo(Fragments, MaxFrags)}

CallUnits == {OldCall(k, "Foo") : k \in 1..NumRules} \cup {<<";">>}

CallTexts == {Flatten(ss) : ss \in SeqsUpTo(CallUnits, MaxCalls)}

SingleCalls == {OldCall(k, T) : k \in 1..NumRules, T \in TypeNames}

\* the texts a file of the scanned tree may hold
NestedGeneric == <<FOT, "<", "List", "<", "Foo", ">", ">", "(", ")">>

SysTexts ==
  { NestedGeneric,
    OldCall(1, "Foo"),
    DeEscape(REPLACEMENTS[1].pattern) \o OldCall(1, "Foo") }

NFiles == 3

Files == 1..NFiles

\* file names, as a stem and its suffixes
Names == { <<"a", ".cs">>, <<"a", ".txt">>, <<"a", ".cs", ".meta">> }

VARIABLES
  input,          \* one file run twice: the text it held at first
  content,        \* the text it holds now
  first,          \* the text the first run left in it
  ret,            \* what the latest run of fix_file returned
  nwrites,        \* how many times the latest run wrote the file
  pass,           \* the number of runs so far
  target,         \* sys.argv[1]: "none" (not given), "absent", "file", "dir"
  fs,             \* the files under the root: name and content
  fs0,            \* fs when the program started
  pc,             \* "main", "loop", "exited"
  cs_files, idx,  \* fix_directory: the list being walked, the next position
  total_files, total_changes,
  opened,         \* the files open() was called on
  wcount,         \* per file, the number of times it was opened for writing
  outcome,        \* per file, how fix_file ended
  returned,       \* per file, what fix_file returned
  exit_code

fvars == <<input, content, first, ret, nwrites, pass>>

svars == <<target, fs, fs0, pc, cs_files, idx, total_files, total_changes,
           opened, wcount, outcome, returned, exit_code>>

vars == <<fvars, svars>>

(***************************************************************************)
(* The whole program: main, fix_directory, fix_file.                       *)
(***************************************************************************)
\* mutant: the filter is '*.cs*'
GlobCsAnywhere(name) == \E i \in 1..Len(name) : name[i] = ".cs"

\* fnmatch(name, '*.cs')
GlobCs(name) == name[Len(name)] = ".cs"

\* directory.rglob('*.cs'), in directory order
RECURSIVE RglobFrom(_, _)
RglobFrom(files, f) ==
  IF f > NFiles THEN <<>>
  ELSE (IF GlobCs(files[f].name) THEN <<f>> ELSE <<>>) \o RglobFrom(files, f + 1)

Rglob(files, root) == IF root = "dir" THEN RglobFrom(files, 1) ELSE <<>>

InitFileIdle ==
  /\ input = <<>>
  /\ content = <<>>
  /\ first = <<>>
  /\ ret = 0
  /\ nwrites = 0
  /\ pass = 0

InitSys ==
  /\ target \in {"none", "absent", "file", "dir"}
  /\ fs \in [Files -> [name : Names, content : SysTexts]]
  /\ fs0 = fs
  /\ pc = "main"
  /\ cs_files = <<>>
  /\ idx = 0
  /\ total_files = 0
  /\ total_changes = 0
  /\ opened = {}
  /\ wcount = [f \in Files |-> 0]
  /\ outcome = [f \in Files |-> "none"]
  /\ returned = [f \in Files |-> 0]
  /\ exit_code = 0

Init == InitFileIdle /\ InitSys

\* main: no positional argument
MainUsage ==
  /\ pc = "main"
  /\ target = "none"
  /\ pc' = "exited"
  /\ exit_code' = 1
  /\ UNCHANGED <<target, fs, fs0, cs_files, idx, total_files, total_changes,
                 opened, wcount, outcome, returned>>

\* mutant: the sys.exit(1) after the error message is missing
MainNoPathContinues ==
  /\ pc = "main"
  /\ target = "absent"
  /\ cs_files' = <<>>
  /\ idx' = 1
  /\ pc' = "loop"
  /\ UNCHANGED <<target, fs, fs0, total_files, total_changes, opened, wcount,
                 outcome, returned, exit_code>>

\* main: os.path.exists(target_path) is false
MainNoPath ==
  /\ pc = "main"
  /\ target = "absent"
  /\ pc' = "exited"
  /\ exit_code' = 1
  /\ UNCHANGED <<target, fs, fs0, cs_files, idx, total_files, total_changes,
                 opened, wcount, outcome, returned>>

\* main calls fix_directory, which lists the files
MainScan ==
  /\ pc = "main"
  /\ target \in {"file", "dir"}
  /\ cs_files' = Rglob(fs, target)
  /\ idx' = 1
  /\ total_files' = 0
  /\ total_changes' = 0
  /\ pc' = "loop"
  /\ UNCHANGED <<target, fs, fs0, opened, wcount, outcome, returned, exit_code>>

\* fix_directory's use of what fix_file returned
Account(f, changes) ==
  /\ returned' = [returned EXCEPT ![f] = changes]
  /\ total_files' = IF changes > 0 THEN total_files + 1 ELSE total_files
  /\ total_changes' = IF changes > 0 THEN total_changes + changes ELSE total_changes
  /\ idx' = idx + 1
  /\ UNCHANGED <<target, fs0, pc, cs_files, exit_code>>

\* one iteration of fix_directory's loop: fix_file reads, rewrites and,
\* when the text changed, writes the file
FixFileOk ==
  /\ pc = "loop"
  /\ idx <= Len(cs_files)
  /\ LET f == cs_files[idx]
         r == FixFile(fs[f].content)
     IN  /\ opened' = opened \cup {f}
         /\ fs' = [fs EXCEPT ![f].content = r.content]
         /\ wcount' = [wcount EXCEPT ![f] = @ + r.writes]
         /\ outcome' = [outcome EXCEPT ![f] =
                        IF r.writes > 0 THEN "written" ELSE "unchanged"]
         /\ Account(f, r.ret)

\* mutant: the exception is not caught and ends the process
FixFileReadErrorAborts ==
  /\ pc = "loop"
  /\ idx <= Len(cs_files)
  /\ opened' = opened \cup {cs_files[idx]}
  /\ outcome' = [outcome EXCEPT ![cs_files[idx]] = "read_error"]
  /\ pc' = "exited"
  /\ exit_code' = 1
  /\ UNCHANGED <<target, fs, fs0, cs_files, idx, total_files, total_changes,
                 wcount, returned>>

\* one iteration in which open() for reading or f.read() raises: the
\* except branch reports it and returns 0
FixFileReadError ==
  /\ pc = "loop"
  /\ idx <= Len(cs_files)
  /\ LET f == cs_files[idx]
     IN  /\ opened' = opened \cup {f}
         /\ outcome' = [outcome EXCEPT ![f] = "read_error"]
         /\ UNCHANGED <<fs, wcount>>
         /\ Account(f, 0)

\* one iteration in which the text changed and open() for writing or
\* f.write() raises: the file keeps its text when open() failed and is left
\* truncated when the write failed
FixFileWriteError ==
  /\ pc = "loop"
  /\ idx <= Len(cs_files)
  /\ LET f == cs_files[idx]
         r == FixFile(fs[f].content)
     IN  /\ r.writes > 0
         /\ opened' = opened \cup {f}
         /\ \E left \in {fs[f].content, <<>>} :
              fs' = [fs EXCEPT ![f].content = left]
         /\ wcount' = [wcount EXCEPT ![f] = @ + 1]
         /\ outcome' = [outcome EXCEPT ![f] = "write_error"]
         /\ Account(f, 0)

\* the loop is over: fix_directory prints the summary, main returns
Finish ==
  /\ pc = "loop"
  /\ idx > Len(cs_files)
  /\ pc' = "exited"
  /\ exit_code' = 0
  /\ UNCHANGED <<target, fs, fs0, cs_files, idx, total_files, total_changes,
                 opened, wcount, outcome, returned>>

Next ==
  \/ (MainUsage /\ UNCHANGED fvars)
  \/ (MainNoPath /\ UNCHANGED fvars)
  \/ (MainScan /\ UNCHANGED fvars)
  \/ (FixFileOk /\ UNCHANGED fvars)
  \/ (FixFileReadError /\ UNCHANGED fvars)
  \/ (FixFileWriteError /\ UNCHANGED fvars)
  \/ (Finish /\ UNCHANGED fvars)

Spec == Init /\ [][Next]_vars

(***************************************************************************)
(* One file, run through fix_file twice.                                   *)
(***************************************************************************)
\* the program has not been started
InitSysIdle ==
  /\ target = "none"
  /\ fs = [f \in Files |-> [name |-> <<"a", ".cs">>, content |-> <<>>]]
  /\ fs0 = fs
  /\ pc = "main"
  /\ cs_files = <<>>
  /\ idx = 0
  /\ total_files = 0
  /\ total_changes = 0
  /\ opened = {}
  /\ wcount = [f \in Files |-> 0]
  /\ outcome = [f \in Files |-> "none"]
  /\ returned = [f \in Files |-> 0]
  /\ exit_code = 0

InitOneFile ==
  /\ input \in FragTexts \cup CallTexts \cup SingleCalls
  /\ content = input
  /\ first = <<>>
  /\ ret = 0
  /\ nwrites = 0
  /\ pass = 0

\* the first run of fix_file on the file
FirstRun ==
  /\ pass = 0
  /\ LET r == FixFile(content)
     IN  /\ content' = r.content
         /\ first' = r.content
         /\ ret' = r.ret
         /\ nwrites' = r.writes
  /\ pass' = 1
  /\ UNCHANGED input

\* a second run on what the first run left in the file
SecondRun ==
  /\ pass = 1
  /\ LET r == FixFile(content)
     IN  /\ content' = r.content
         /\ ret' = r.ret
         /\ nwrites' = r.writes
  /\ pass' = 2
  /\ UNCHANGED <<input, first>>

InitFile == InitOneFile /\ InitSysIdle

NextFile ==
  \/ (FirstRun /\ UNCHANGED svars)
  \/ (SecondRun /\ UNCHANGED svars)

SpecFile == InitFile /\ [][NextFile]_vars

(***************************************************************************)
(* Properties.                                                             *)
(***************************************************************************)
Range(seq) == {seq[i] : i \in 1..Len(seq)}

RECURSIVE SumReturned(_, _)
SumReturned(fn, n) == IF n = 0 THEN 0 ELSE fn[n] + SumReturned(fn, n - 1)

NoRuleMatches(text) ==
  \A k \in 1..NumRules : ~Matches(REPLACEMENTS[k].pattern, text)

SomeRuleMatches(text) ==
  \E k \in 1..NumRules : Matches(REPLACEMENTS[k].pattern, text)

ErrorOutcomes == {"read_error", "write_error"}

\* C1: when the run has ended, 'Files modified' (total_files) is the number
\* of files fix_file wrote back.
C1_FilesModifiedIsWrittenFiles ==
  pc = "exited" =>
    total_files = Cardinality({f \in Files : outcome[f] = "written"})

\* some substring of text that matches one of the patterns has the name
\* FindObjectOfType inside its captured group
NestedCall(text) ==
  \E k \in 1..NumRules :
    \E i \in MatchStarts(REPLACEMENTS[k].pattern, text, 1) :
      FOT \in Range(MatchAt(REPLACEMENTS[k].pattern, text, i).cap)

C3_SingleCallRewritten ==
  \A k \in 1..NumRules : \A T \in TypeNames :
    (pass = 1 /\ input = OldCall(k, T)) =>
      (content = NewCall(k, T) /\ nwrites = 1)

C3_Witness ==
  /\ pass = 1
  /\ input = OldCall(6, "Bar")
  /\ content = NewCall(6, "Bar")

\* fix_directory's totals are those of the values fix_file returned
TotalsOfReturned ==
  /\ total_changes = SumReturned(returned, NFiles)
  /\ total_files = Cardinality({f \in Files : returned[f] > 0})

\* the texts a file may start with that no pattern matches
UnmatchedTexts == {t \in SysTexts : NoRuleMatches(t)}

\* C4: a file none of whose text any pattern matches is never written, keeps
\* its content, makes fix_file return 0 and adds nothing to the totals.
C4_NonMatchPreserved ==
  /\ TotalsOfReturned
  /\ \A f \in Files :
       (outcome[f] # "none" /\ fs0[f].content \in UnmatchedTexts) =>
         /\ wcount[f] = 0
         /\ fs[f].content = fs0[f].content
         /\ returned[f] = 0
         /\ outcome[f] \in {"unchanged", "read_error"}

C4_Witness ==
  /\ pc = "exited"
  /\ \E f \in Files :
       /\ outcome[f] = "unchanged"
       /\ fs0[f].content = NestedGeneric
       /\ fs[f].content = NestedGeneric
  /\ total_files > 0

\* what the seven rules make of each text a file may start with
Rewritten == [t \in SysTexts |-> ApplyRules(t, NumRules).content]

\* C5: a file whose reading or writing fails is recorded as failed and
\* counts for nothing, every discovered file is still given to fix_file, and
\* a file that was rewritten keeps its rewritten content.
C5_ErrorIsolation ==
  /\ TotalsOfReturned
  /\ \A f \in Files : outcome[f] \in ErrorOutcomes => returned[f] = 0
  /\ (pc = "exited" /\ target = "dir") =>
       \A f \in Files : GlobCs(fs0[f].name) => outcome[f] # "none"
  /\ \A f \in Files :
       outcome[f] = "written" =>
         fs[f].content = Rewritten[fs0[f].content]

C5_Witness ==
  /\ pc = "exited"
  /\ exit_code = 0
  /\ Len(cs_files) >= 3
  /\ outcome[cs_files[1]] = "written"
  /\ fs[cs_files[1]].content # fs0[cs_files[1]].content
  /\ outcome[cs_files[2]] \in ErrorOutcomes
  /\ outcome[cs_files[3]] = "written"

\* C6 as stated: on FindObjectOfType<List<Foo>>() the generic-call rule
\* matches, so the call is renamed rather than left untouched.
C6_NestedGenericRewritten ==
  (pass = 1 /\ input = NestedGeneric) =>
    (Matches(REPLACEMENTS[1].pattern, input)
       /\ content # input /\ content[1] = "FindFirstObjectByType")

\* C6 as amended: on FindObjectOfType<List<Foo>>() no rule matches (the
\* first '>' after the group is followed by '>', not by '('), and the text
\* is left untouched.
C6_NestedGenericUntouched ==
  (pass >= 1 /\ input = NestedGeneric) =>
    /\ NoRuleMatches(input)
    /\ content = input
    /\ nwrites = 0
    /\ ret = 0

C6_Witness ==
  /\ pass = 1
  /\ input = NestedGeneric
  /\ content = NestedGeneric
  /\ RunLen(input, 3, ">") = Len(<<"List", "<", "Foo">>)

StartsWith(text, prefix) ==
  Len(text) >= Len(prefix) /\ SubSeq(text, 1, Len(prefix)) = prefix

Drop(text, n) == SubSeq(text, n + 1, Len(text))

\* text read as a row of complete deprecated calls and ';' separators: how
\* many calls it holds and the row of their documented modern forms
RECURSIVE CallRow(_)
CallRow(text) ==
  IF text = <<>> THEN [ok |-> TRUE, n |-> 0, modern |-> <<>>]
  ELSE IF Head(text) = ";" THEN
    LET rest == CallRow(Tail(text))
    IN  [ok |-> rest.ok, n |-> rest.n, modern |-> <<";">> \o rest.modern]
  ELSE
    LET here == {c \in (1..NumRules) \X TypeNames :
                   StartsWith(text, OldCall(c[1], c[2]))}
    IN  IF here = {} THEN [ok |-> FALSE, n |-> 0, modern |-> <<>>]
        ELSE LET c    == CHOOSE c \in here : TRUE
                 rest == CallRow(Drop(text, Len(OldCall(c[1], c[2]))))
             IN  [ok |-> rest.ok, n |-> rest.n + 1,
                  modern |-> NewCall(c[1], c[2]) \o rest.modern]

\* C7: a file holding several independent deprecated calls has every one of
\* them replaced and is written exactly once in a run.
C7_AllReplacedOneWrite ==
  (pass = 1 /\ CallRow(input).ok /\ CallRow(input).n >= 2) =>
    /\ content = CallRow(input).modern
    /\ nwrites = 1

C7_Witness ==
  /\ pass = 1
  /\ input = OldCall(5, "Foo") \o OldCall(1, "Foo") \o OldCall(5, "Foo")
  /\ content = NewCall(5, "Foo") \o NewCall(1, "Foo") \o NewCall(5, "Foo")
  /\ nwrites = 1

\* C8: a file whose name does not end in .cs is never opened, read or
\* written, and only files whose name ends in .cs are given to fix_file.
C8_OnlyCsFilesTouched ==
  /\ \A f \in Files :
       fs0[f].name[Len(fs0[f].name)] # ".cs" =>
         /\ f \notin opened
         /\ wcount[f] = 0
         /\ outcome[f] = "none"
         /\ fs[f] = fs0[f]
  /\ \A i \in 1..Len(cs_files) :
       fs0[cs_files[i]].name[Len(fs0[cs_files[i]].name)] = ".cs"

C8_Witness ==
  /\ pc = "exited"
  /\ \E f, g \in Files :
       /\ fs0[f].name = <<"a", ".cs", ".meta">>
       /\ SomeRuleMatches(fs0[f].content)
       /\ fs[f] = fs0[f]
       /\ f \notin opened
       /\ outcome[g] = "written"

\* C9: the process exits non-zero exactly when the argument is missing or
\* the path does not exist, and then no file has been opened or changed;
\* every other run that ends, ends with exit code zero.
C9_ExitCode ==
  pc = "exited" =>
    /\ (exit_code # 0) <=> (target \in {"none", "absent"})
    /\ (target \notin {"none", "absent"}) => exit_code = 0
    /\ (exit_code # 0) =>
         (opened = {} /\ fs = fs0 /\ \A f \in Files : wcount[f] = 0)

C9_Witness ==
  /\ pc = "exited"
  /\ exit_code = 0
  /\ target = "dir"
  /\ \E f, g \in Files :
       outcome[f] = "write_error" /\ outcome[g] = "read_error"

\* the rules whose substitution changed the text during a run on text
ChangingRules(text) ==
  {k \in 1..NumRules :
     ApplyRules(text, k).content # ApplyRules(text, k - 1).content}

\* the occurrences, in the original text, of the de-escaped patterns of
\* the rules from k on whose substitution changes the text, cur being the
\* text the first k - 1 rules have produced
RECURSIVE OriginalCount(_, _, _)
OriginalCount(text, cur, k) ==
  IF k > NumRules THEN 0
  ELSE LET new == ReSub(REPLACEMENTS[k].pattern, REPLACEMENTS[k].replacement, cur)
       IN  (IF new # cur
            THEN StrCount(text, DeEscape(REPLACEMENTS[k].pattern)) ELSE 0)
           + OriginalCount(text, new, k + 1)

\* C10: for a file that changed, fix_file returns the sum, over the rules
\* that changed the text, of the occurrences of the rule's de-escaped
\* pattern in the original content.
C10_CountIsOfOriginal ==
  (pass = 1 /\ content # input) => ret = OriginalCount(input, input, 1)

C10_Witness ==
  /\ pass = 1
  /\ ret > 0
  /\ 1 \in ChangingRules(input)
  /\ 4 \in ChangingRules(input)
  /\ StrCount(input, DeEscape(REPLACEMENTS[4].pattern)) > 0

====
